---------------------------- MODULE Spec2Model ----------------------------
(***************************************************************************)
(* Onboarding engine of the goal-tracking MCP server                       *)
(* (src/server/onboarding_state.py): the in-memory session store, the      *)
(* 3-question answer recording, completion detection and the profile       *)
(* classification table.                                                   *)
(*                                                                         *)
(* Spec      every engine function is one step (the callers in             *)
(*           src/server/tools/onboarding.py are coroutines without an      *)
(*           await, so one call runs to its end on the event loop).        *)
(* SpecConc  record_answer called from several threads, one step per       *)
(*           statement; the function takes no lock.                        *)
(* SpecGoals the set_goal and clear_goal tools of                          *)
(*           src/server/mcp_server.py over the one-slot goal store.        *)
(* SpecTools the start_onboarding and answer_onboarding tools of            *)
(*           src/server/mcp_server.py over the engine.                     *)
(***************************************************************************)
EXTENDS Integers, Sequences, FiniteSets, TLC

VARIABLES
    sessions,   \* _sessions: session id -> OnboardingState
    issued,     \* ids returned by create_session so far
    cleared,    \* ids passed to clear_session and not returned by create_session since
    log,        \* per stored id, the answers supplied by the calls that were not no-ops
    lastOp,     \* the last engine call: [op, session_id, answer]
    ret,        \* the value the last engine call returned
    pre,        \* what _sessions held under the last call's id when the call started
    calls,      \* SpecConc: per thread, the frame of its record_answer call
    goal        \* the goal store's current goal, None when there is none

vars == <<sessions, issued, cleared, log, lastOp, ret, pre, calls, goal>>

\* ---------------------------------------------------------------- bounds
MaxIds == 3        \* session ids that callers may pass
MaxSessions == 2   \* create_session calls in one run
MaxThreads == 2    \* threads calling record_answer in SpecConc
MaxCalls == 2      \* record_answer calls one thread makes in SpecConc
MaxDay == 3        \* calendar days that dates and date.today() range over
MaxTitleLen == 2   \* characters in a title passed to set_goal

Ids == 1..MaxIds
Threads == 1..MaxThreads

\* ------------------------------------------------------------ static data
ONBOARDING_QUESTIONS ==
    << "Do you prefer focusing on daily goals rather than long-term goals?",
       "Do you work better when you have specific deadlines?",
       "Do you prefer tracking multiple goals at the same time?" >>

\* Optional[...] return values
None == [tag |-> "None", val |-> <<>>]
Ref(session) == [tag |-> "Session", val |-> session]
Str(text) == [tag |-> "Str", val |-> text]
Dict(d) == [tag |-> "Dict", val |-> d]

OnboardingState(session_id) ==
    [session_id |-> session_id, current_question |-> 0,
     answers |-> <<>>, completed |-> FALSE]

\* ------------------------------------------------------ engine functions
create_session_reset(S, session_id) ==
    LET session == OnboardingState(session_id) IN
    [sessions |-> [k \in {session_id} |-> session], ret |-> Ref(session)]

create_session(S, session_id) ==
    LET session == OnboardingState(session_id) IN
    [sessions |-> [k \in DOMAIN S \cup {session_id} |->
                      IF k = session_id THEN session ELSE S[k]],
     ret |-> Ref(session)]

get_session_default(S, session_id) ==
    IF session_id \in DOMAIN S THEN Ref(S[session_id])
    ELSE Ref(OnboardingState(session_id))

get_session(S, session_id) ==
    IF session_id \in DOMAIN S THEN Ref(S[session_id]) ELSE None

get_current_question_off_by_one(session) ==
    IF session.current_question >= Len(ONBOARDING_QUESTIONS) - 1 THEN None
    ELSE Str(ONBOARDING_QUESTIONS[session.current_question + 1])

get_current_question(session) ==
    IF session.current_question >= Len(ONBOARDING_QUESTIONS) THEN None
    ELSE Str(ONBOARDING_QUESTIONS[session.current_question + 1])

append_and_advance_no_increment(session, answer) ==
    LET s1 == [session EXCEPT !.answers = Append(@, answer)] IN
    IF s1.current_question >= Len(ONBOARDING_QUESTIONS)
    THEN [s1 EXCEPT !.completed = TRUE] ELSE s1

append_and_advance_late(session, answer) ==
    LET s1 == [session EXCEPT !.answers = Append(@, answer),
                              !.current_question = @ + 1] IN
    IF s1.current_question > Len(ONBOARDING_QUESTIONS)
    THEN [s1 EXCEPT !.completed = TRUE] ELSE s1

append_and_advance_prepend(session, answer) ==
    LET s1 == [session EXCEPT !.answers = <<answer>> \o @,
                              !.current_question = @ + 1] IN
    IF s1.current_question >= Len(ONBOARDING_QUESTIONS)
    THEN [s1 EXCEPT !.completed = TRUE] ELSE s1

append_and_advance_skip(session, answer) ==
    LET s1 == [session EXCEPT !.answers = Append(@, answer),
                              !.current_question = @ + 2] IN
    IF s1.current_question >= Len(ONBOARDING_QUESTIONS)
    THEN [s1 EXCEPT !.completed = TRUE] ELSE s1

\* lines 92-98 of record_answer: append, increment, completion test
append_and_advance(session, answer) ==
    LET s1 == [session EXCEPT !.answers = Append(@, answer),
                              !.current_question = @ + 1] IN
    IF s1.current_question >= Len(ONBOARDING_QUESTIONS)
    THEN [s1 EXCEPT !.completed = TRUE] ELSE s1

record_answer_unguarded(S, session_id, answer) ==
    IF session_id \notin DOMAIN S THEN [sessions |-> S, ret |-> None]
    ELSE LET s2 == append_and_advance(S[session_id], answer)
         IN  [sessions |-> [S EXCEPT ![session_id] = s2], ret |-> Ref(s2)]

record_answer_autocreate(S, session_id, answer) ==
    LET S0 == IF session_id \in DOMAIN S THEN S
              ELSE create_session(S, session_id).sessions IN
    IF S0[session_id].completed
    THEN [sessions |-> S0, ret |-> Ref(S0[session_id])]
    ELSE LET s2 == append_and_advance(S0[session_id], answer)
         IN  [sessions |-> [S0 EXCEPT ![session_id] = s2], ret |-> Ref(s2)]

record_answer_expiring(S, session_id, answer) ==
    IF session_id \notin DOMAIN S THEN [sessions |-> S, ret |-> None]
    ELSE IF S[session_id].completed
         THEN [sessions |-> S, ret |-> Ref(S[session_id])]
         ELSE LET s2 == append_and_advance(S[session_id], answer)
              IN  IF s2.completed
                  THEN [sessions |-> [k \in DOMAIN S \ {session_id} |-> S[k]],
                        ret |-> Ref(s2)]
                  ELSE [sessions |-> [S EXCEPT ![session_id] = s2],
                        ret |-> Ref(s2)]

record_answer_shared_answers(S, session_id, answer) ==
    IF session_id \notin DOMAIN S THEN [sessions |-> S, ret |-> None]
    ELSE IF S[session_id].completed
         THEN [sessions |-> S, ret |-> Ref(S[session_id])]
         ELSE LET s2 == append_and_advance(S[session_id], answer)
              IN  [sessions |-> [k \in DOMAIN S |->
                                    IF k = session_id THEN s2
                                    ELSE [S[k] EXCEPT
                                              !.answers = Append(@, answer)]],
                   ret |-> Ref(s2)]

record_answer(S, session_id, answer) ==
    IF session_id \notin DOMAIN S THEN [sessions |-> S, ret |-> None]
    ELSE IF S[session_id].completed
         THEN [sessions |-> S, ret |-> Ref(S[session_id])]
         ELSE LET s2 == append_and_advance(S[session_id], answer)
              IN  [sessions |-> [S EXCEPT ![session_id] = s2], ret |-> Ref(s2)]

clear_session_get(S, session_id) ==
    IF session_id \in DOMAIN S
    THEN [sessions |-> S, ret |-> Ref(S[session_id])]
    ELSE [sessions |-> S, ret |-> None]

clear_session(S, session_id) ==
    IF session_id \in DOMAIN S
    THEN [sessions |-> [k \in DOMAIN S \ {session_id} |-> S[k]],
          ret |-> Ref(S[session_id])]
    ELSE [sessions |-> S, ret |-> None]


Profile(profile, description, recommendation) ==
    [profile |-> profile, description |-> description,
     recommendation |-> recommendation]

profiles_swapped ==
    (<<TRUE, TRUE, TRUE>> :> Profile("Sprint-focused Achiever", "", "")) @@
    (<<TRUE, TRUE, FALSE>> :> Profile("Focused Daily Planner", "", "")) @@
    (<<TRUE, FALSE, TRUE>> :> Profile("Day-by-day Achiever", "", "")) @@
    (<<TRUE, FALSE, FALSE>> :> Profile("Flexible Multi-tasker", "", "")) @@
    (<<FALSE, TRUE, TRUE>> :> Profile("Strategic Project Manager", "", "")) @@
    (<<FALSE, TRUE, FALSE>> :> Profile("Milestone-driven Achiever", "", "")) @@
    (<<FALSE, FALSE, TRUE>> :> Profile("Exploratory Goal-setter", "", "")) @@
    (<<FALSE, FALSE, FALSE>> :> Profile("Deep Focus Achiever", "", ""))

profiles_missing_row ==
    [key \in {<<TRUE, TRUE, TRUE>>} |->
        Profile("Sprint-focused Achiever", "", "")]

\* the dict of get_summary, keyed by (daily, deadlines, multi)
profiles ==
    (<<TRUE, TRUE, TRUE>> :> Profile(
        "Sprint-focused Achiever",
        "You thrive with daily deadlines and enjoy juggling multiple concurrent goals. You're energized by short-term wins.",
        "Set 2-3 daily goals with specific deadlines. Use a task board to visualize all active goals and celebrate small wins daily.")) @@
    (<<TRUE, TRUE, FALSE>> :> Profile(
        "Focused Daily Planner",
        "You work best tackling one goal at a time with clear daily deadlines. You value deep focus over breadth.",
        "Focus on a single important goal each day with a specific deadline. Complete it before moving to the next.")) @@
    (<<TRUE, FALSE, TRUE>> :> Profile(
        "Flexible Multi-tasker",
        "You prefer daily goals but without rigid deadlines. You enjoy variety and flexibility in your approach.",
        "Set 2-3 small daily goals and review progress weekly. Don't stress about exact completion times.")) @@
    (<<TRUE, FALSE, FALSE>> :> Profile(
        "Day-by-day Achiever",
        "You prefer a single daily focus with a flexible approach. You value simplicity and taking things one step at a time.",
        "Pick one meaningful goal each morning. Focus on progress, not perfection.")) @@
    (<<FALSE, TRUE, TRUE>> :> Profile(
        "Strategic Project Manager",
        "You excel at long-term planning with clear milestones while tracking multiple projects simultaneously.",
        "Create a roadmap with quarterly goals broken into monthly milestones. Use a project tracker for visibility.")) @@
    (<<FALSE, TRUE, FALSE>> :> Profile(
        "Milestone-driven Achiever",
        "You focus deeply on a single long-term goal with clear deadlines. You're driven by significant milestones.",
        "Set one major goal with a clear deadline. Break it into weekly milestones and track progress consistently.")) @@
    (<<FALSE, FALSE, TRUE>> :> Profile(
        "Exploratory Goal-setter",
        "You prefer flexibility with multiple long-term pursuits. You value exploration and gradual progress.",
        "Maintain 2-3 long-term goals and review monthly. Allow yourself to pivot as interests evolve.")) @@
    (<<FALSE, FALSE, FALSE>> :> Profile(
        "Deep Focus Achiever",
        "You work best with one long-term goal and a flexible timeline. You value depth over breadth.",
        "Choose one meaningful long-term goal. Focus on consistent progress without pressure from deadlines."))

get_summary_no_sentinel(session) ==
    LET unique == Dict(Profile("Unique Achiever",
                               "Your goal-setting style is unique!",
                               "Experiment with different approaches to find what works best for you."))
    IN  IF Len(session.answers) = 0
        THEN Dict(Profile("Incomplete", "Please complete all questions first.", ""))
        ELSE IF Len(session.answers) = 3
                   /\ <<session.answers[1], session.answers[2],
                        session.answers[3]>> \in DOMAIN profiles
             THEN Dict(profiles[<<session.answers[1], session.answers[2],
                                  session.answers[3]>>])
             ELSE unique

get_summary(session) ==
    IF ~session.completed \/ Len(session.answers) # 3
    THEN Dict(Profile("Incomplete", "Please complete all questions first.", ""))
    ELSE LET daily == session.answers[1]
             deadlines == session.answers[2]
             multi == session.answers[3]
         IN  IF <<daily, deadlines, multi>> \in DOMAIN profiles
             THEN Dict(profiles[<<daily, deadlines, multi>>])
             ELSE Dict(Profile("Unique Achiever",
                               "Your goal-setting style is unique!",
                               "Experiment with different approaches to find what works best for you."))

get_answer_summary_text_first_answer(session) ==
    IF Len(session.answers) # 3 THEN Str(<<>>)
    ELSE LET daily == session.answers[1]
             deadlines == session.answers[1]
             multi == session.answers[3]
         IN  Str(<< IF daily
                    THEN "- You prefer daily goals over long-term planning"
                    ELSE "- You prefer long-term goals over daily tasks",
                    IF deadlines
                    THEN "- You work better with strict deadlines"
                    ELSE "- You work better without strict deadlines",
                    IF multi
                    THEN "- You like tracking multiple goals"
                    ELSE "- You prefer focusing on one goal at a time" >>)

\* the three lines that "\n".join(lines) glues together, in order
get_answer_summary_text(session) ==
    IF Len(session.answers) # 3 THEN Str(<<>>)
    ELSE LET daily == session.answers[1]
             deadlines == session.answers[2]
             multi == session.answers[3]
         IN  Str(<< IF daily
                    THEN "- You prefer daily goals over long-term planning"
                    ELSE "- You prefer long-term goals over daily tasks",
                    IF deadlines
                    THEN "- You work better with strict deadlines"
                    ELSE "- You work better without strict deadlines",
                    IF multi
                    THEN "- You like tracking multiple goals"
                    ELSE "- You prefer focusing on one goal at a time" >>)

\* ------------------------------------------------------------- the calls
Held(S, session_id) == IF session_id \in DOMAIN S THEN Ref(S[session_id]) ELSE None

Op(op, session_id, answer) ==
    [op |-> op, session_id |-> session_id, answer |-> answer]

Idle == [pc |-> "idle", session_id |-> 0, answer |-> FALSE, tmp |-> 0,
         ret |-> None, n |-> 0]

Init ==
    /\ sessions = <<>>
    /\ issued = {}
    /\ cleared = {}
    /\ log = [k \in Ids |-> <<>>]
    /\ lastOp = Op("init", 0, FALSE)
    /\ ret = None
    /\ pre = None
    /\ calls = [t \in Threads |-> Idle]
    /\ goal = None

\* uuid4().hex is an id no earlier call returned. The engine never compares
\* or orders ids, so the fresh id is taken to be the least unused one.
uuid4 == CHOOSE session_id \in Ids \ issued :
             \A other \in Ids \ issued : session_id <= other

CreateSession ==
    /\ Cardinality(issued) < MaxSessions
    /\ Ids \ issued # {}
    /\ LET session_id == uuid4
           r == create_session(sessions, session_id) IN
          /\ sessions' = r.sessions
          /\ ret' = r.ret
          /\ issued' = issued \cup {session_id}
          /\ lastOp' = Op("create_session", session_id, FALSE)
          /\ cleared' = cleared \ {session_id}
          /\ pre' = Held(sessions, session_id)
    /\ UNCHANGED <<log, calls, goal>>

GetSessionPop(session_id) ==
    /\ ret' = get_session(sessions, session_id)
    /\ sessions' = clear_session(sessions, session_id).sessions
    /\ lastOp' = Op("get_session", session_id, FALSE)
    /\ pre' = Held(sessions, session_id)
    /\ UNCHANGED <<issued, cleared, log, calls, goal>>

GetSession(session_id) ==
    /\ ret' = get_session(sessions, session_id)
    /\ lastOp' = Op("get_session", session_id, FALSE)
    /\ pre' = Held(sessions, session_id)
    /\ UNCHANGED <<sessions, issued, cleared, log, calls, goal>>

GetCurrentQuestion(session_id) ==
    /\ session_id \in DOMAIN sessions
    /\ ret' = get_current_question(sessions[session_id])
    /\ lastOp' = Op("get_current_question", session_id, FALSE)
    /\ pre' = Held(sessions, session_id)
    /\ UNCHANGED <<sessions, issued, cleared, log, calls, goal>>

RecordAnswer(session_id, answer) ==
    /\ LET r == record_answer(sessions, session_id, answer) IN
          /\ sessions' = r.sessions
          /\ ret' = r.ret
    /\ log' = IF session_id \in DOMAIN sessions /\ ~sessions[session_id].completed
              THEN [log EXCEPT ![session_id] = Append(@, answer)]
              ELSE log
    /\ lastOp' = Op("record_answer", session_id, answer)
    /\ pre' = Held(sessions, session_id)
    /\ UNCHANGED <<issued, cleared, calls, goal>>

GetSummary(session_id) ==
    /\ session_id \in DOMAIN sessions
    /\ ret' = get_summary(sessions[session_id])
    /\ lastOp' = Op("get_summary", session_id, FALSE)
    /\ pre' = Held(sessions, session_id)
    /\ UNCHANGED <<sessions, issued, cleared, log, calls, goal>>

GetAnswerSummaryText(session_id) ==
    /\ session_id \in DOMAIN sessions
    /\ ret' = get_answer_summary_text(sessions[session_id])
    /\ lastOp' = Op("get_answer_summary_text", session_id, FALSE)
    /\ pre' = Held(sessions, session_id)
    /\ UNCHANGED <<sessions, issued, cleared, log, calls, goal>>

ClearSession(session_id) ==
    /\ LET r == clear_session(sessions, session_id) IN
          /\ sessions' = r.sessions
          /\ ret' = r.ret
    /\ cleared' = cleared \cup {session_id}
    /\ log' = [log EXCEPT ![session_id] = <<>>]
    /\ lastOp' = Op("clear_session", session_id, FALSE)
    /\ pre' = Held(sessions, session_id)
    /\ UNCHANGED <<issued, calls, goal>>

Next ==
    \/ CreateSession
    \/ \E session_id \in Ids : GetSession(session_id)
    \/ \E session_id \in Ids : GetCurrentQuestion(session_id)
    \/ \E session_id \in Ids, answer \in BOOLEAN : RecordAnswer(session_id, answer)
    \/ \E session_id \in Ids : GetSummary(session_id)
    \/ \E session_id \in Ids : GetAnswerSummaryText(session_id)
    \/ \E session_id \in Ids : ClearSession(session_id)

Spec == Init /\ [][Next]_vars


\* ----------------------------------------- record_answer, statement by statement
\* One frame per thread: pc is the statement the call executes next,
\* session_id and answer are its arguments, tmp is the value of
\* session.current_question read by the += of line 94, ret is what the call
\* returned ("Session": the stored object), n counts the calls the thread
\* has made. The function holds no lock, so the statements of calls in
\* different threads interleave freely.
Frame(pc, session_id, answer, tmp, r, n) ==
    [pc |-> pc, session_id |-> session_id, answer |-> answer, tmp |-> tmp,
     ret |-> r, n |-> n]

InFlight(t) == calls[t].pc \notin {"idle", "done"}

Call(t, session_id, answer) ==
    /\ ~InFlight(t)
    /\ calls[t].n < MaxCalls
    /\ calls' = [calls EXCEPT ![t] =
                    Frame("lookup", session_id, answer, 0, None, calls[t].n + 1)]
    /\ UNCHANGED <<sessions, issued, cleared, log, lastOp, ret, pre, goal>>

\* lines 85-87: session = _sessions.get(session_id); return None if absent
Lookup(t) ==
    /\ calls[t].pc = "lookup"
    /\ calls' = [calls EXCEPT ![t].pc =
                    IF calls[t].session_id \in DOMAIN sessions
                    THEN "check" ELSE "done"]
    /\ UNCHANGED <<sessions, issued, cleared, log, lastOp, ret, pre, goal>>

\* lines 89-90: if session.completed: return session
CheckCompleted(t) ==
    /\ calls[t].pc = "check"
    /\ calls' = IF sessions[calls[t].session_id].completed
                THEN [calls EXCEPT ![t].pc = "done",
                                   ![t].ret = [tag |-> "Session", val |-> <<>>]]
                ELSE [calls EXCEPT ![t].pc = "append"]
    /\ UNCHANGED <<sessions, issued, cleared, log, lastOp, ret, pre, goal>>

\* line 93: session.answers.append(answer)
AppendAnswer(t) ==
    /\ calls[t].pc = "append"
    /\ sessions' = [sessions EXCEPT ![calls[t].session_id].answers =
                       Append(@, calls[t].answer)]
    /\ calls' = [calls EXCEPT ![t].pc = "load"]
    /\ UNCHANGED <<issued, cleared, log, lastOp, ret, pre, goal>>

\* line 94, the read of session.current_question += 1
LoadIndex(t) ==
    /\ calls[t].pc = "load"
    /\ calls' = [calls EXCEPT ![t].pc = "store",
                              ![t].tmp = sessions[calls[t].session_id].current_question]
    /\ UNCHANGED <<sessions, issued, cleared, log, lastOp, ret, pre, goal>>

\* line 94, the write of session.current_question += 1
StoreIndex(t) ==
    /\ calls[t].pc = "store"
    /\ sessions' = [sessions EXCEPT ![calls[t].session_id].current_question =
                       calls[t].tmp + 1]
    /\ calls' = [calls EXCEPT ![t].pc = "test"]
    /\ UNCHANGED <<issued, cleared, log, lastOp, ret, pre, goal>>

\* line 97: if session.current_question >= len(ONBOARDING_QUESTIONS)
TestComplete(t) ==
    /\ calls[t].pc = "test"
    /\ calls' = IF sessions[calls[t].session_id].current_question
                      >= Len(ONBOARDING_QUESTIONS)
                THEN [calls EXCEPT ![t].pc = "set"]
                ELSE [calls EXCEPT ![t].pc = "done",
                                   ![t].ret = [tag |-> "Session", val |-> <<>>]]
    /\ UNCHANGED <<sessions, issued, cleared, log, lastOp, ret, pre, goal>>

\* lines 98-100: session.completed = True; return session
SetCompleted(t) ==
    /\ calls[t].pc = "set"
    /\ sessions' = [sessions EXCEPT ![calls[t].session_id].completed = TRUE]
    /\ calls' = [calls EXCEPT ![t].pc = "done",
                              ![t].ret = [tag |-> "Session", val |-> <<>>]]
    /\ UNCHANGED <<issued, cleared, log, lastOp, ret, pre, goal>>

NextConc ==
    \/ CreateSession
    \/ \E t \in Threads, session_id \in Ids, answer \in BOOLEAN :
          Call(t, session_id, answer)
    \/ \E t \in Threads : Lookup(t)
    \/ \E t \in Threads : CheckCompleted(t)
    \/ \E t \in Threads : AppendAnswer(t)
    \/ \E t \in Threads : LoadIndex(t)
    \/ \E t \in Threads : StoreIndex(t)
    \/ \E t \in Threads : TestComplete(t)
    \/ \E t \in Threads : SetCompleted(t)

SpecConc == Init /\ [][NextConc]_vars

\* ------------------------------------------------------------ the goal tools
\* Tool handlers of src/server/mcp_server.py (the wired copy; the handlers
\* of src/server/tools/goals.py are line for line the same) over the goal
\* store.  Titles are strings over a blank and a letter; a date string is
\* the padded form "YYYY-MM-DD" of a day, an unpadded form of the same day
\* that strptime also accepts ("YYYY-M-D"), a string strptime rejects, or
\* the empty string; startDate may also be omitted.
Days == 1..MaxDay
\* int(time.time() * 1000): two readings, so that two goals' ids can be equal
\* or differ
Clock == {1, 2}
Chars == {" ", "a"}
Titles == UNION {[1..n -> Chars] : n \in 0..MaxTitleLen}

DateString(form, day) == [form |-> form, day |-> day]
EmptyString == DateString("empty", 0)
Omitted == DateString("omitted", 0)
DateStrings ==
    {DateString(f, d) : f \in {"padded", "unpadded"}, d \in Days}
        \cup {DateString("invalid", 0), EmptyString}

\* str.strip()
RECURSIVE lstrip(_)
lstrip(s) == IF s # <<>> /\ Head(s) = " " THEN lstrip(Tail(s)) ELSE s

RECURSIVE rstrip(_)
rstrip(s) ==
    IF s # <<>> /\ s[Len(s)] = " " THEN rstrip(SubSeq(s, 1, Len(s) - 1)) ELSE s

strip(s) == rstrip(lstrip(s))

\* `if not s` on a date argument: None and "" are falsy
Falsy(s) == s.form \in {"empty", "omitted"}

\* datetime.strptime(s, "%Y-%m-%d").date(); ok = FALSE is the ValueError
_parse_date(s) ==
    IF s.form \in {"padded", "unpadded"} THEN [ok |-> TRUE, date |-> s.day]
    ELSE [ok |-> FALSE, date |-> 0]

isoformat(d) == DateString("padded", d)

\* the goal store: one slot, set replaces, clear empties and hands back
\* what was held
get_goal(G) == G

do_set_goal(G, g) == Dict(g)

do_clear_goal(G) == [goal |-> None, ret |-> G]

Message(text, title, total_days, days_until) ==
    [text |-> text, title |-> title, total_days |-> total_days,
     days_until |-> days_until]

CallToolResult(content, structuredContent, isError) ==
    [tag |-> "Result",
     val |-> [content |-> content, structuredContent |-> structuredContent,
              isError |-> isError]]

_error_result_clearing(G, message) ==
    [goal |-> None,
     result |-> CallToolResult(Message(message, <<>>, 0, 0),
                               [goal |-> get_goal(None)], TRUE)]

_error_result(G, message) ==
    [goal |-> G,
     result |-> CallToolResult(Message(message, <<>>, 0, 0),
                               [goal |-> get_goal(G)], TRUE)]

set_goal_allow_equal(G, title, targetDate, startDate, today, now) ==
    LET title_clean == strip(title)
        start == IF ~Falsy(startDate) THEN _parse_date(startDate)
                 ELSE [ok |-> TRUE, date |-> today]
        target == _parse_date(targetDate)
    IN  IF title_clean = <<>> THEN _error_result(G, "Missing goal title.")
        ELSE IF Falsy(targetDate) THEN _error_result(G, "Missing target date.")
        ELSE IF ~start.ok \/ ~target.ok
            THEN _error_result(G, "Invalid date format: {e}")
        ELSE IF target.date < start.date
            THEN _error_result(G, "Target date must be after start date.")
        ELSE LET g == [id |-> now, title |-> title_clean,
                       startDate |-> isoformat(start.date),
                       targetDate |-> targetDate]
                 G1 == do_set_goal(G, g)
             IN  [goal |-> G1,
                  result |-> CallToolResult(
                      Message("Goal \"{title_clean}\" set! {total_days} day journey, {days_until} days remaining.",
                              title_clean, target.date - start.date,
                              target.date - today),
                      [goal |-> get_goal(G1)], FALSE)]

set_goal_keep_first(G, title, targetDate, startDate, today, now) ==
    LET title_clean == strip(title)
        start == IF ~Falsy(startDate) THEN _parse_date(startDate)
                 ELSE [ok |-> TRUE, date |-> today]
        target == _parse_date(targetDate)
    IN  IF title_clean = <<>> THEN _error_result(G, "Missing goal title.")
        ELSE IF Falsy(targetDate) THEN _error_result(G, "Missing target date.")
        ELSE IF ~start.ok \/ ~target.ok
            THEN _error_result(G, "Invalid date format: {e}")
        ELSE IF target.date <= start.date
            THEN _error_result(G, "Target date must be after start date.")
        ELSE LET g == [id |-> now, title |-> title_clean,
                       startDate |-> isoformat(start.date),
                       targetDate |-> targetDate]
                 G1 == IF G.tag = "None" THEN do_set_goal(G, g) ELSE G
             IN  [goal |-> G1,
                  result |-> CallToolResult(
                      Message("Goal \"{title_clean}\" set! {total_days} day journey, {days_until} days remaining.",
                              title_clean, target.date - start.date,
                              target.date - today),
                      [goal |-> get_goal(G1)], FALSE)]

\* set_goal tool; `now` is int(time.time() * 1000), the id is "goal-<now>"
set_goal(G, title, targetDate, startDate, today, now) ==
    LET title_clean == strip(title)
        start == IF ~Falsy(startDate) THEN _parse_date(startDate)
                 ELSE [ok |-> TRUE, date |-> today]
        target == _parse_date(targetDate)
    IN  IF title_clean = <<>> THEN _error_result(G, "Missing goal title.")
        ELSE IF Falsy(targetDate) THEN _error_result(G, "Missing target date.")
        ELSE IF ~start.ok \/ ~target.ok
            THEN _error_result(G, "Invalid date format: {e}")
        ELSE IF target.date <= start.date
            THEN _error_result(G, "Target date must be after start date.")
        ELSE LET g == [id |-> now, title |-> title_clean,
                       startDate |-> isoformat(start.date),
                       targetDate |-> targetDate]
                 G1 == do_set_goal(G, g)
             IN  [goal |-> G1,
                  result |-> CallToolResult(
                      Message("Goal \"{title_clean}\" set! {total_days} day journey, {days_until} days remaining.",
                              title_clean, target.date - start.date,
                              target.date - today),
                      [goal |-> get_goal(G1)], FALSE)]

\* clear_goal tool
clear_goal(G) ==
    LET cleared_ == do_clear_goal(G)
        current == cleared_.ret
        message == IF current.tag = "None"
                   THEN Message("No goal to clear.", <<>>, 0, 0)
                   ELSE Message("Goal \"{title}\" cleared.",
                                current.val.title, 0, 0)
    IN  [goal |-> cleared_.goal,
         result |-> CallToolResult(message,
                                   [goal |-> get_goal(cleared_.goal)], FALSE)]

SetGoal(title, targetDate, startDate, today, now) ==
    LET r == set_goal(goal, title, targetDate, startDate, today, now)
    IN  /\ goal' = r.goal
        /\ ret' = r.result
        /\ lastOp' = Op("set_goal", 0, FALSE)
        /\ pre' = None
        /\ UNCHANGED <<sessions, issued, cleared, log, calls>>

ClearGoal ==
    LET r == clear_goal(goal)
    IN  /\ goal' = r.goal
        /\ ret' = r.result
        /\ lastOp' = Op("clear_goal", 0, FALSE)
        /\ pre' = None
        /\ UNCHANGED <<sessions, issued, cleared, log, calls>>

NextGoals ==
    \/ \E title \in Titles, targetDate \in DateStrings,
          startDate \in DateStrings \cup {Omitted},
          today \in Days, now \in Clock :
            SetGoal(title, targetDate, startDate, today, now)
    \/ ClearGoal

SpecGoals == Init /\ [][NextGoals]_vars

\* ------------------------------------------------------ the onboarding tools
\* start_onboarding and answer_onboarding of src/server/mcp_server.py (the
\* handlers of src/server/tools/onboarding.py are the same).  A handler has
\* no await, so the event loop runs each call to its end before the next.
\* The text of a result is its f-string template together with the values
\* formatted into it.
start_onboarding(S, session_id) ==
    LET created == create_session(S, session_id)
        session == created.ret.val
        first_question == get_current_question(session)
    IN  [sessions |-> created.sessions,
         result |-> CallToolResult(
             [text |-> "Welcome! Let's learn about your goal-setting style.\n\nQuestion 1/{N}: {first_question}\n\nPlease answer Y (Yes) or N (No).",
              N |-> Len(ONBOARDING_QUESTIONS),
              first_question |-> first_question],
             [sessionId |-> session.session_id,
              currentQuestion |-> session.current_question + 1,
              totalQuestions |-> Len(ONBOARDING_QUESTIONS),
              questionText |-> first_question,
              completed |-> FALSE],
             FALSE)]

answer_session_reclassify(S, answer, session_id, session) ==
    IF session.completed
    THEN LET summary ==
                 get_summary([session EXCEPT !.answers[3] = answer]).val
         IN  [sessions |-> S,
              result |-> CallToolResult(
                  [text |-> "Onboarding already completed. Your profile: {profile}",
                   profile |-> summary.profile],
                  [sessionId |-> session.session_id, completed |-> TRUE,
                   profile |-> summary],
                  FALSE)]
    ELSE LET recorded == record_answer(S, session_id, answer)
             updated_session == recorded.ret
         IN  IF updated_session.tag = "None"
             THEN [sessions |-> recorded.sessions,
                   result |-> CallToolResult(
                       [text |-> "Failed to record answer."],
                       [error |-> "Failed to record answer"], TRUE)]
             ELSE IF updated_session.val.completed
             THEN LET summary == get_summary(updated_session.val).val
                      answer_text ==
                          get_answer_summary_text(updated_session.val).val
                  IN  [sessions |-> recorded.sessions,
                       result |-> CallToolResult(
                           [text |-> "Onboarding complete! Your goal-setting profile: **{profile}**\n\n{description}\n\nBased on your answers:\n{answer_text}\n\n**Recommendation:** {recommendation}",
                            profile |-> summary.profile,
                            description |-> summary.description,
                            answer_text |-> answer_text,
                            recommendation |-> summary.recommendation],
                           [sessionId |-> updated_session.val.session_id,
                            completed |-> TRUE,
                            answers |-> updated_session.val.answers,
                            profile |-> summary],
                           FALSE)]
             ELSE LET next_question ==
                          get_current_question(updated_session.val)
                      question_num == updated_session.val.current_question + 1
                  IN  [sessions |-> recorded.sessions,
                       result |-> CallToolResult(
                           [text |-> "Question {question_num}/{N}: {next_question}\n\nPlease answer Y (Yes) or N (No).",
                            question_num |-> question_num,
                            N |-> Len(ONBOARDING_QUESTIONS),
                            next_question |-> next_question],
                           [sessionId |-> updated_session.val.session_id,
                            currentQuestion |-> question_num,
                            totalQuestions |-> Len(ONBOARDING_QUESTIONS),
                            questionText |-> next_question,
                            completed |-> FALSE,
                            answersGiven |-> Len(updated_session.val.answers)],
                           FALSE)]

answer_session_no_completed_check(S, answer, session_id, session) ==
    IF FALSE
    THEN LET summary == get_summary(session).val
         IN  [sessions |-> S,
              result |-> CallToolResult(
                  [text |-> "Onboarding already completed. Your profile: {profile}",
                   profile |-> summary.profile],
                  [sessionId |-> session.session_id, completed |-> TRUE,
                   profile |-> summary],
                  FALSE)]
    ELSE LET recorded == record_answer(S, session_id, answer)
             updated_session == recorded.ret
         IN  IF updated_session.tag = "None"
             THEN [sessions |-> recorded.sessions,
                   result |-> CallToolResult(
                       [text |-> "Failed to record answer."],
                       [error |-> "Failed to record answer"], TRUE)]
             ELSE IF updated_session.val.completed
             THEN LET summary == get_summary(updated_session.val).val
                      answer_text ==
                          get_answer_summary_text(updated_session.val).val
                  IN  [sessions |-> recorded.sessions,
                       result |-> CallToolResult(
                           [text |-> "Onboarding complete! Your goal-setting profile: **{profile}**\n\n{description}\n\nBased on your answers:\n{answer_text}\n\n**Recommendation:** {recommendation}",
                            profile |-> summary.profile,
                            description |-> summary.description,
                            answer_text |-> answer_text,
                            recommendation |-> summary.recommendation],
                           [sessionId |-> updated_session.val.session_id,
                            completed |-> TRUE,
                            answers |-> updated_session.val.answers,
                            profile |-> summary],
                           FALSE)]
             ELSE LET next_question ==
                          get_current_question(updated_session.val)
                      question_num == updated_session.val.current_question + 1
                  IN  [sessions |-> recorded.sessions,
                       result |-> CallToolResult(
                           [text |-> "Question {question_num}/{N}: {next_question}\n\nPlease answer Y (Yes) or N (No).",
                            question_num |-> question_num,
                            N |-> Len(ONBOARDING_QUESTIONS),
                            next_question |-> next_question],
                           [sessionId |-> updated_session.val.session_id,
                            currentQuestion |-> question_num,
                            totalQuestions |-> Len(ONBOARDING_QUESTIONS),
                            questionText |-> next_question,
                            completed |-> FALSE,
                            answersGiven |-> Len(updated_session.val.answers)],
                           FALSE)]

answer_session_after_clear(S, answer, session_id, session) ==
    IF session.completed
    THEN LET summary == get_summary(session).val
         IN  [sessions |-> S,
              result |-> CallToolResult(
                  [text |-> "Onboarding already completed. Your profile: {profile}",
                   profile |-> summary.profile],
                  [sessionId |-> session.session_id, completed |-> TRUE,
                   profile |-> summary],
                  FALSE)]
    ELSE LET recorded == record_answer(clear_session(S, session_id).sessions,
                                       session_id, answer)
             updated_session == recorded.ret
         IN  IF updated_session.tag = "None"
             THEN [sessions |-> recorded.sessions,
                   result |-> CallToolResult(
                       [text |-> "Failed to record answer."],
                       [error |-> "Failed to record answer"], TRUE)]
             ELSE IF updated_session.val.completed
             THEN LET summary == get_summary(updated_session.val).val
                      answer_text ==
                          get_answer_summary_text(updated_session.val).val
                  IN  [sessions |-> recorded.sessions,
                       result |-> CallToolResult(
                           [text |-> "Onboarding complete! Your goal-setting profile: **{profile}**\n\n{description}\n\nBased on your answers:\n{answer_text}\n\n**Recommendation:** {recommendation}",
                            profile |-> summary.profile,
                            description |-> summary.description,
                            answer_text |-> answer_text,
                            recommendation |-> summary.recommendation],
                           [sessionId |-> updated_session.val.session_id,
                            completed |-> TRUE,
                            answers |-> updated_session.val.answers,
                            profile |-> summary],
                           FALSE)]
             ELSE LET next_question ==
                          get_current_question(updated_session.val)
                      question_num == updated_session.val.current_question + 1
                  IN  [sessions |-> recorded.sessions,
                       result |-> CallToolResult(
                           [text |-> "Question {question_num}/{N}: {next_question}\n\nPlease answer Y (Yes) or N (No).",
                            question_num |-> question_num,
                            N |-> Len(ONBOARDING_QUESTIONS),
                            next_question |-> next_question],
                           [sessionId |-> updated_session.val.session_id,
                            currentQuestion |-> question_num,
                            totalQuestions |-> Len(ONBOARDING_QUESTIONS),
                            questionText |-> next_question,
                            completed |-> FALSE,
                            answersGiven |-> Len(updated_session.val.answers)],
                           FALSE)]

\* answer_onboarding from line 226 on: get_session has returned `session`
answer_session(S, answer, session_id, session) ==
    IF session.completed
    THEN LET summary == get_summary(session).val
         IN  [sessions |-> S,
              result |-> CallToolResult(
                  [text |-> "Onboarding already completed. Your profile: {profile}",
                   profile |-> summary.profile],
                  [sessionId |-> session.session_id, completed |-> TRUE,
                   profile |-> summary],
                  FALSE)]
    ELSE LET recorded == record_answer(S, session_id, answer)
             updated_session == recorded.ret
         IN  IF updated_session.tag = "None"
             THEN [sessions |-> recorded.sessions,
                   result |-> CallToolResult(
                       [text |-> "Failed to record answer."],
                       [error |-> "Failed to record answer"], TRUE)]
             ELSE IF updated_session.val.completed
             THEN LET summary == get_summary(updated_session.val).val
                      answer_text ==
                          get_answer_summary_text(updated_session.val).val
                  IN  [sessions |-> recorded.sessions,
                       result |-> CallToolResult(
                           [text |-> "Onboarding complete! Your goal-setting profile: **{profile}**\n\n{description}\n\nBased on your answers:\n{answer_text}\n\n**Recommendation:** {recommendation}",
                            profile |-> summary.profile,
                            description |-> summary.description,
                            answer_text |-> answer_text,
                            recommendation |-> summary.recommendation],
                           [sessionId |-> updated_session.val.session_id,
                            completed |-> TRUE,
                            answers |-> updated_session.val.answers,
                            profile |-> summary],
                           FALSE)]
             ELSE LET next_question ==
                          get_current_question(updated_session.val)
                      question_num == updated_session.val.current_question + 1
                  IN  [sessions |-> recorded.sessions,
                       result |-> CallToolResult(
                           [text |-> "Question {question_num}/{N}: {next_question}\n\nPlease answer Y (Yes) or N (No).",
                            question_num |-> question_num,
                            N |-> Len(ONBOARDING_QUESTIONS),
                            next_question |-> next_question],
                           [sessionId |-> updated_session.val.session_id,
                            currentQuestion |-> question_num,
                            totalQuestions |-> Len(ONBOARDING_QUESTIONS),
                            questionText |-> next_question,
                            completed |-> FALSE,
                            answersGiven |-> Len(updated_session.val.answers)],
                           FALSE)]

answer_onboarding_autocreate(S, answer, session_id) ==
    LET session == get_session(S, session_id)
    IN  IF session.tag = "None"
        THEN answer_session(create_session(S, session_id).sessions, answer,
                            session_id, OnboardingState(session_id))
        ELSE answer_session(S, answer, session_id, session.val)

answer_onboarding(S, answer, session_id) ==
    LET session == get_session(S, session_id)
    IN  IF session.tag = "None"
        THEN [sessions |-> S,
              result |-> CallToolResult(
                  [text |-> "Session not found. Please start onboarding again."],
                  [error |-> "Session not found"], TRUE)]
        ELSE answer_session(S, answer, session_id, session.val)

StartOnboarding ==
    /\ Cardinality(issued) < MaxSessions
    /\ Ids \ issued # {}
    /\ LET session_id == uuid4
           r == start_onboarding(sessions, session_id) IN
          /\ sessions' = r.sessions
          /\ ret' = r.result
          /\ issued' = issued \cup {session_id}
          /\ lastOp' = Op("start_onboarding", session_id, FALSE)
          /\ pre' = Held(sessions, session_id)
    /\ UNCHANGED <<cleared, log, calls, goal>>

AnswerOnboarding(session_id, answer) ==
    /\ LET r == answer_onboarding(sessions, answer, session_id) IN
          /\ sessions' = r.sessions
          /\ ret' = r.result
    /\ log' = IF session_id \in DOMAIN sessions /\ ~sessions[session_id].completed
              THEN [log EXCEPT ![session_id] = Append(@, answer)]
              ELSE log
    /\ lastOp' = Op("answer_onboarding", session_id, answer)
    /\ pre' = Held(sessions, session_id)
    /\ UNCHANGED <<issued, cleared, calls, goal>>

NextTools ==
    \/ StartOnboarding
    \/ \E session_id \in Ids, answer \in BOOLEAN :
           AnswerOnboarding(session_id, answer)

SpecTools == Init /\ [][NextTools]_vars

\* ------------------------------------------------------------ the claims
N == Len(ONBOARDING_QUESTIONS)

\* C1: in every state reachable by create_session, record_answer and
\* clear_session calls, every stored session has
\* current_question = len(answers).
C1_IndexEqualsAnswerCount ==
    \A id \in DOMAIN sessions :
        sessions[id].current_question = Len(sessions[id].answers)

C1_Witness ==
    /\ lastOp.op = "record_answer"
    /\ lastOp.session_id \in DOMAIN sessions
    /\ pre.tag = "Session"
    /\ Len(pre.val.answers) = 1
    /\ Len(sessions[lastOp.session_id].answers) = 2

\* C2: for every stored session, completed is true exactly when
\* current_question = 3: never true with fewer than 3 recorded answers,
\* never false once 3 are recorded.
C2_CompletedIffAllAnswered ==
    \A id \in DOMAIN sessions :
        /\ sessions[id].completed <=> (sessions[id].current_question = 3)
        /\ sessions[id].completed => Len(sessions[id].answers) >= 3
        /\ Len(sessions[id].answers) >= 3 => sessions[id].completed

C2_Witness ==
    /\ lastOp.op = "record_answer"
    /\ lastOp.session_id \in DOMAIN sessions
    /\ pre.tag = "Session"
    /\ ~pre.val.completed
    /\ sessions[lastOp.session_id].completed
    /\ \E other \in DOMAIN sessions :
          /\ ~sessions[other].completed
          /\ sessions[other].current_question = 2

\* C3: record_answer on a session that is already completed, with either
\* answer, leaves its answers, current_question and completed as they were
\* and returns that session, not None.
C3_CompletedIsNoOp ==
    (lastOp.op = "record_answer" /\ pre.tag = "Session" /\ pre.val.completed)
    => /\ lastOp.session_id \in DOMAIN sessions
       /\ sessions[lastOp.session_id].answers = pre.val.answers
       /\ sessions[lastOp.session_id].current_question = pre.val.current_question
       /\ sessions[lastOp.session_id].completed = pre.val.completed
       /\ ret.tag = "Session"
       /\ ret.val = pre.val

C3_Witness ==
    /\ lastOp.op = "record_answer"
    /\ pre.tag = "Session"
    /\ pre.val.completed
    /\ lastOp.answer # pre.val.answers[3]
    /\ ret.tag = "Session"

\* C4: after k calls that were not no-ops (k in 0..3) on a created session,
\* current_question = k, len(answers) = k and answers is the sequence of the
\* k supplied booleans in call order; true, false, true yields completed
\* with answers [true, false, true].
C4_AnswersAreSuppliedInOrder ==
    \A id \in DOMAIN sessions :
        LET k == Len(log[id]) IN
        /\ k \in 0..3
        /\ sessions[id].current_question = k
        /\ Len(sessions[id].answers) = k
        /\ \A i \in 1..k : sessions[id].answers[i] = log[id][i]
        /\ log[id] = <<TRUE, FALSE, TRUE>>
              => /\ sessions[id].completed
                 /\ sessions[id].answers = <<TRUE, FALSE, TRUE>>

C4_Witness ==
    \E id \in DOMAIN sessions :
        /\ log[id] = <<TRUE, FALSE, TRUE>>
        /\ sessions[id].completed
        /\ lastOp = Op("record_answer", id, TRUE)
        /\ pre.tag = "Session"
        /\ pre.val.answers = <<TRUE, FALSE>>

\* C7: record_answer with an id that is not a key of the store returns None
\* and leaves the store as it was: no session created, none modified.
C7_UnknownIdChangesNothing ==
    [][(lastOp'.op = "record_answer" /\ lastOp'.session_id \notin DOMAIN sessions)
          => (sessions' = sessions /\ ret'.tag = "None")]_vars

C7_Witness ==
    /\ lastOp.op = "record_answer"
    /\ pre.tag = "None"
    /\ ret.tag = "None"
    /\ lastOp.session_id \notin DOMAIN sessions
    /\ \E other \in DOMAIN sessions : sessions[other].current_question > 0

\* C8: get_session returns None for every id create_session never returned
\* and for every id passed to clear_session and not created again; for an
\* id in the store it returns the session stored under that id.
C8_GetSessionLookup ==
    /\ \A id \in Ids :
          LET r == get_session(sessions, id) IN
          /\ (id \notin issued \/ id \in cleared) => r.tag = "None"
          /\ id \in DOMAIN sessions
                => r.tag = "Session" /\ r.val = sessions[id]
    /\ lastOp.op = "get_session"
          => /\ (lastOp.session_id \notin issued \/ lastOp.session_id \in cleared)
                   => ret.tag = "None"
             /\ lastOp.session_id \in DOMAIN sessions
                   => /\ ret.tag = "Session"
                      /\ ret.val = sessions[lastOp.session_id]
                      /\ ret.val.session_id = lastOp.session_id

C8_Witness ==
    /\ lastOp.op = "get_session"
    /\ lastOp.session_id \in issued
    /\ lastOp.session_id \in cleared
    /\ ret.tag = "None"
    /\ \E never \in Ids : never \notin issued
    /\ DOMAIN sessions # {}

\* what C9 expects of get_current_question for one session
C9_Question(session) ==
    LET k == Len(session.answers)
        q == get_current_question(session) IN
    /\ k = 0 => q.tag = "Str" /\
           q.val = "Do you prefer focusing on daily goals rather than long-term goals?"
    /\ k = 1 => q.tag = "Str" /\
           q.val = "Do you work better when you have specific deadlines?"
    /\ k = 2 => q.tag = "Str" /\
           q.val = "Do you prefer tracking multiple goals at the same time?"
    /\ k = 3 => q.tag = "None"
    /\ (q.tag = "None") <=> session.completed

\* C9: get_current_question returns ONBOARDING_QUESTIONS[k] for a session
\* with k < 3 recorded answers (the first question when fresh, the second
\* after one answer) and None when k = 3; it returns None exactly when the
\* session is completed.
C9_CurrentQuestion ==
    /\ \A id \in DOMAIN sessions : C9_Question(sessions[id])
    /\ (lastOp.op = "get_current_question" /\ lastOp.session_id \in DOMAIN sessions)
          => ret = get_current_question(sessions[lastOp.session_id])

C9_Witness ==
    /\ lastOp.op = "get_current_question"
    /\ lastOp.session_id \in DOMAIN sessions
    /\ Len(sessions[lastOp.session_id].answers) = 1
    /\ ret.tag = "Str"
    /\ ret.val = ONBOARDING_QUESTIONS[2]
    /\ \E done \in DOMAIN sessions :
          /\ sessions[done].completed
          /\ get_current_question(sessions[done]).tag = "None"

\* the profile table of the specification, section 4.1
C10_Table(daily, deadlines, multi) ==
    CASE  daily /\  deadlines /\  multi -> "Sprint-focused Achiever"
      []  daily /\  deadlines /\ ~multi -> "Focused Daily Planner"
      []  daily /\ ~deadlines /\  multi -> "Flexible Multi-tasker"
      []  daily /\ ~deadlines /\ ~multi -> "Day-by-day Achiever"
      [] ~daily /\  deadlines /\  multi -> "Strategic Project Manager"
      [] ~daily /\  deadlines /\ ~multi -> "Milestone-driven Achiever"
      [] ~daily /\ ~deadlines /\  multi -> "Exploratory Goal-setter"
      [] ~daily /\ ~deadlines /\ ~multi -> "Deep Focus Achiever"

C10_Completed == {id \in DOMAIN sessions :
                     sessions[id].completed /\ Len(sessions[id].answers) = 3}

\* C10: for each of the 8 boolean triples, get_summary of a completed
\* session with those answers returns the profile name of the table, and
\* distinct triples give distinct profiles.
C10_ProfileTable ==
    /\ \A id \in C10_Completed :
          LET a == sessions[id].answers IN
          get_summary(sessions[id]).val.profile = C10_Table(a[1], a[2], a[3])
    /\ \A id1, id2 \in C10_Completed :
          sessions[id1].answers # sessions[id2].answers
             => get_summary(sessions[id1]).val.profile
                   # get_summary(sessions[id2]).val.profile
    /\ (lastOp.op = "get_summary" /\ lastOp.session_id \in C10_Completed)
          => LET a == sessions[lastOp.session_id].answers IN
             /\ ret.tag = "Dict"
             /\ ret.val.profile = C10_Table(a[1], a[2], a[3])

C10_Witness ==
    /\ lastOp.op = "get_summary"
    /\ lastOp.session_id \in C10_Completed
    /\ sessions[lastOp.session_id].answers = <<FALSE, FALSE, FALSE>>
    /\ ret.tag = "Dict"
    /\ ret.val.profile = "Deep Focus Achiever"
    /\ \E other \in C10_Completed :
          sessions[other].answers = <<TRUE, FALSE, TRUE>>


\* C5: two record_answer calls running concurrently on the same fresh
\* session with different answers: one advances current_question to 1 and
\* the other to 2; they never both land at index 1, so no final state has
\* both answers applied and current_question = 1.
C5_NoLostUpdate ==
    \A t1, t2 \in Threads :
        LET c1 == calls[t1]
            c2 == calls[t2] IN
        ( /\ t1 # t2
          /\ c1.pc = "done" /\ c2.pc = "done"
          /\ c1.ret.tag = "Session" /\ c2.ret.tag = "Session"
          /\ c1.session_id = c2.session_id
          /\ c1.answer # c2.answer
          /\ \A t \in Threads : InFlight(t) => calls[t].session_id # c1.session_id
          /\ Len(sessions[c1.session_id].answers) = 2 )
        => /\ sessions[c1.session_id].current_question = 2
           /\ {c1.tmp + 1, c2.tmp + 1} = {1, 2}

\* the two halves of C6
C6_IndexMatchesWhenQuiet ==
    (\A t \in Threads : ~InFlight(t))
       => \A id \in DOMAIN sessions :
             sessions[id].current_question = Len(sessions[id].answers)

C6_AtMostNAnswers ==
    \A id \in DOMAIN sessions : Len(sessions[id].answers) <= N

\* C6: record_answer is one atomic step per session id: under any
\* interleaving of concurrent calls with the same id, once all in-flight
\* calls have finished current_question = len(answers), and len(answers)
\* never exceeds 3.
C6_AtomicPerSession == C6_IndexMatchesWhenQuiet /\ C6_AtMostNAnswers


\* C11: get_summary on a session that is not completed (0, 1 or 2 recorded
\* answers, a fresh session included) returns the sentinel with profile
\* "Incomplete" and an empty recommendation.
C11_IncompleteSentinel ==
    /\ \A id \in DOMAIN sessions :
          ~sessions[id].completed
             => LET r == get_summary(sessions[id]) IN
                /\ r.tag = "Dict"
                /\ r.val.profile = "Incomplete"
                /\ r.val.recommendation = ""
    /\ ( /\ lastOp.op = "get_summary"
         /\ lastOp.session_id \in DOMAIN sessions
         /\ ~sessions[lastOp.session_id].completed )
          => /\ ret.tag = "Dict"
             /\ ret.val.profile = "Incomplete"
             /\ ret.val.recommendation = ""

C11_Witness ==
    /\ lastOp.op = "get_summary"
    /\ lastOp.session_id \in DOMAIN sessions
    /\ Len(sessions[lastOp.session_id].answers) = 2
    /\ ~sessions[lastOp.session_id].completed
    /\ ret.tag = "Dict"
    /\ ret.val.profile = "Incomplete"
    /\ \E fresh \in DOMAIN sessions :
          /\ sessions[fresh].answers = <<>>
          /\ get_summary(sessions[fresh]).val.profile = "Incomplete"

\* C12: clear_session(id) removes the session keyed by id and returns it when
\* id is present, returns None and leaves the store unchanged when id is
\* absent; after it, record_answer(id, a) returns None.
C12_ClearSession ==
    [][lastOp'.op = "clear_session"
          => LET id == lastOp'.session_id IN
             /\ id \in DOMAIN sessions
                   => /\ ret' = Ref(sessions[id])
                      /\ DOMAIN sessions' = DOMAIN sessions \ {id}
                      /\ \A k \in DOMAIN sessions' : sessions'[k] = sessions[k]
             /\ id \notin DOMAIN sessions
                   => /\ ret'.tag = "None"
                      /\ sessions' = sessions
             /\ \A a \in BOOLEAN :
                   /\ record_answer(sessions', id, a).ret.tag = "None"
                   /\ record_answer(sessions', id, a).sessions = sessions']_vars

C12_Witness ==
    /\ lastOp.op = "clear_session"
    /\ pre.tag = "Session"
    /\ pre.val.current_question = 2
    /\ ret.tag = "Session"
    /\ ret.val = pre.val
    /\ lastOp.session_id \notin DOMAIN sessions
    /\ DOMAIN sessions # {}

\* C13: create_session inserts a session with current_question = 0,
\* answers = [] and completed = false under an id that was not a key of the
\* store before the call, and leaves every session already stored unchanged.
C13_CreateSession ==
    [][lastOp'.op = "create_session"
          => LET id == lastOp'.session_id IN
             /\ id \notin DOMAIN sessions
             /\ DOMAIN sessions' = DOMAIN sessions \cup {id}
             /\ sessions'[id].session_id = id
             /\ sessions'[id].current_question = 0
             /\ sessions'[id].answers = <<>>
             /\ sessions'[id].completed = FALSE
             /\ ret'.tag = "Session"
             /\ ret'.val = sessions'[id]
             /\ \A k \in DOMAIN sessions : sessions'[k] = sessions[k]]_vars

C13_Witness ==
    /\ lastOp.op = "create_session"
    /\ pre.tag = "None"
    /\ lastOp.session_id \in DOMAIN sessions
    /\ sessions[lastOp.session_id].answers = <<>>
    /\ \E other \in DOMAIN sessions :
          /\ other # lastOp.session_id
          /\ sessions[other].current_question > 0

\* C14: while a session stays in the store its only changes are
\* Active(k) -> Active(k+1) for k+1 < 3 and Active(2) -> Completed, each by
\* one record_answer call on it: current_question never decreases, grows by
\* at most 1 in a step, and a completed session keeps completed and answers.
C14_Transitions ==
    [][\A id \in DOMAIN sessions \cap DOMAIN sessions' :
          LET s == sessions[id]
              s2 == sessions'[id] IN
          \/ s2 = s
          \/ /\ lastOp' = Op("record_answer", id, lastOp'.answer)
             /\ ~s.completed
             /\ s.current_question < 3
             /\ s2.current_question = s.current_question + 1
             /\ s2.answers = Append(s.answers, lastOp'.answer)
             /\ s2.completed = (s2.current_question = 3)
             /\ s2.session_id = s.session_id]_vars

C14_Witness ==
    /\ lastOp.op = "record_answer"
    /\ pre.tag = "Session"
    /\ pre.val.current_question = 2
    /\ ~pre.val.completed
    /\ lastOp.session_id \in DOMAIN sessions
    /\ sessions[lastOp.session_id].completed
    /\ sessions[lastOp.session_id].current_question = 3

\* C15: a created session stays in the store under its id until
\* clear_session is called with that id; no other call removes it, also
\* after it is completed.
C15_RemovedOnlyByClear ==
    [][\A id \in DOMAIN sessions :
          id \notin DOMAIN sessions'
             => lastOp' = Op("clear_session", id, FALSE)]_vars

C15_Witness ==
    /\ lastOp.op = "record_answer"
    /\ pre.tag = "Session"
    /\ pre.val.completed
    /\ lastOp.session_id \in DOMAIN sessions
    /\ \E other \in DOMAIN sessions :
          other # lastOp.session_id /\ sessions[other].completed

\* C16: get_session, get_current_question, get_summary and
\* get_answer_summary_text are read-only: a call of any of them leaves the
\* store and every session's answers, current_question and completed as
\* they were.
C16_ReadOnly ==
    [][lastOp'.op \in {"get_session", "get_current_question", "get_summary",
                       "get_answer_summary_text"}
          => /\ sessions' = sessions
             /\ DOMAIN sessions' = DOMAIN sessions
             /\ \A id \in DOMAIN sessions :
                   /\ sessions'[id].answers = sessions[id].answers
                   /\ sessions'[id].current_question = sessions[id].current_question
                   /\ sessions'[id].completed = sessions[id].completed]_vars

C16_Witness ==
    /\ lastOp.op = "get_answer_summary_text"
    /\ lastOp.session_id \in DOMAIN sessions
    /\ sessions[lastOp.session_id].completed
    /\ pre = Ref(sessions[lastOp.session_id])
    /\ ret.tag = "Str"
    /\ Len(ret.val) = 3

\* the 8 profile names of the table
C19_TableProfiles ==
    {"Sprint-focused Achiever", "Focused Daily Planner", "Flexible Multi-tasker",
     "Day-by-day Achiever", "Strategic Project Manager",
     "Milestone-driven Achiever", "Exploratory Goal-setter",
     "Deep Focus Achiever"}

\* C19: for every session reachable through create_session and record_answer
\* with completed = true, get_summary returns one of the 8 table profiles,
\* never the "Incomplete" sentinel nor the "Unique Achiever" fallback.
C19_NoFallbackWhenCompleted ==
    /\ \A id \in DOMAIN sessions :
          sessions[id].completed
             => LET r == get_summary(sessions[id]) IN
                /\ r.val.profile \in C19_TableProfiles
                /\ r.val.profile # "Incomplete"
                /\ r.val.profile # "Unique Achiever"
    /\ ( /\ lastOp.op = "get_summary"
         /\ lastOp.session_id \in DOMAIN sessions
         /\ sessions[lastOp.session_id].completed )
          => /\ ret.tag = "Dict"
             /\ ret.val.profile \in C19_TableProfiles

C19_Witness ==
    /\ lastOp.op = "get_summary"
    /\ lastOp.session_id \in DOMAIN sessions
    /\ sessions[lastOp.session_id].completed
    /\ sessions[lastOp.session_id].answers = <<FALSE, TRUE, FALSE>>
    /\ ret.tag = "Dict"
    /\ ret.val.profile = "Milestone-driven Achiever"

\* C17: every goal held by the goal store after any sequence of set_goal
\* and clear_goal tool calls has a non-empty trimmed title and a targetDate
\* strictly after its startDate; set_goal with target <= start (target ==
\* start included, and a target not after today when startDate is omitted)
\* stores nothing and answers with an error.
C17_GoalInvariant ==
    /\ goal.tag = "Dict" =>
        /\ goal.val.title # <<>>
        /\ strip(goal.val.title) = goal.val.title
        /\ _parse_date(goal.val.startDate).ok
        /\ _parse_date(goal.val.targetDate).ok
        /\ _parse_date(goal.val.targetDate).date
               > _parse_date(goal.val.startDate).date
    /\ \A title \in Titles, targetDate \in DateStrings,
          startDate \in DateStrings \cup {Omitted},
          today \in Days, now \in Clock :
            LET start == IF startDate.form \in {"omitted", "empty"}
                         THEN today ELSE _parse_date(startDate).date
            IN  (/\ _parse_date(targetDate).ok
                 /\ startDate.form # "invalid"
                 /\ _parse_date(targetDate).date <= start)
                    => \A r \in {set_goal(goal, title, targetDate, startDate,
                                          today, now)} :
                           r.goal = goal /\ r.result.val.isError

\* a goal is held, and the last set_goal call was turned down for its dates
C17_Witness ==
    /\ goal.tag = "Dict"
    /\ Len(goal.val.title) = 2
    /\ goal.val.targetDate.form = "unpadded"
    /\ lastOp.op = "set_goal"
    /\ ret.tag = "Result"
    /\ ret.val.isError
    /\ ret.val.content.text = "Target date must be after start date."

\* C18: the goal store holds at most one goal: after a successful set_goal
\* the current goal is the newly set one, whatever was current before, and
\* after clear_goal the store is empty, whether or not a goal was present;
\* clearing an empty store is not an error.
C18_SetReplacesClearEmpties ==
    /\ goal.tag \in {"None", "Dict"}
    /\ (lastOp.op = "set_goal" /\ ~ret.val.isError) =>
        /\ goal.tag = "Dict"
        /\ ret.val.structuredContent.goal = goal
        /\ ret.val.content.title = goal.val.title
        /\ ret.val.content.total_days =
               _parse_date(goal.val.targetDate).date
                   - _parse_date(goal.val.startDate).date
    /\ lastOp.op = "clear_goal" =>
        /\ goal = None
        /\ ~ret.val.isError
        /\ ret.val.structuredContent.goal = None
    /\ \A title \in Titles, targetDate \in DateStrings,
          startDate \in DateStrings \cup {Omitted},
          today \in Days, now \in Clock :
            \A r \in {set_goal(goal, title, targetDate, startDate, today, now)} :
                ~r.result.val.isError =>
                    /\ r.goal.tag = "Dict"
                    /\ r.goal.val.id = now
                    /\ r.goal.val.title = strip(title)
                    /\ r.goal.val.targetDate = targetDate
                    /\ r.goal.val.startDate =
                           IF startDate.form \in {"omitted", "empty"}
                           THEN isoformat(today)
                           ELSE isoformat(_parse_date(startDate).date)
    /\ clear_goal(goal).goal = None
    /\ ~clear_goal(goal).result.val.isError

\* clear_goal has emptied a store that held a goal
C18_Witness ==
    /\ lastOp.op = "clear_goal"
    /\ ret.val.content.text = "Goal \"{title}\" cleared."
    /\ ret.val.content.title = <<"a", "a">>
    /\ goal = None

\* C20: the answer_onboarding tool called with a session_id that is not in
\* the store returns an error result (isError, "Session not found") and
\* changes nothing: no session is created and no stored session's answers,
\* current_question or completed changes.
C20_SessionNotFound ==
    [][(lastOp'.op = "answer_onboarding"
            /\ lastOp'.session_id \notin DOMAIN sessions) =>
           /\ ret'.tag = "Result"
           /\ ret'.val.isError
           /\ ret'.val.structuredContent = [error |-> "Session not found"]
           /\ ret'.val.content.text
                  = "Session not found. Please start onboarding again."
           /\ DOMAIN sessions' = DOMAIN sessions
           /\ \A id \in DOMAIN sessions :
                  /\ sessions'[id].answers = sessions[id].answers
                  /\ sessions'[id].current_question
                         = sessions[id].current_question
                  /\ sessions'[id].completed = sessions[id].completed]_vars

\* the tool was called with an id no session has, while the store held a
\* session with an answer recorded and one completed
C20_Witness ==
    /\ lastOp.op = "answer_onboarding"
    /\ lastOp.session_id \notin DOMAIN sessions
    /\ pre.tag = "None"
    /\ ret.tag = "Result"
    /\ ret.val.isError
    /\ \E id \in DOMAIN sessions : Len(sessions[id].answers) = 1
    /\ \E id \in DOMAIN sessions : sessions[id].completed

\* C21: re-query after completion is idempotent: every answer_onboarding
\* call on an already completed session, with either answer value, returns a
\* non-error result with completed = true and the profile that the call
\* which completed the session returned (both are the classification of the
\* session's three stored answers), and leaves the session unchanged.
C21_RequeryIdempotent ==
    [][lastOp'.op = "answer_onboarding" =>
        LET id == lastOp'.session_id IN
        /\ (id \in DOMAIN sessions /\ sessions[id].completed) =>
            /\ sessions' = sessions
            /\ ret'.tag = "Result"
            /\ ~ret'.val.isError
            /\ ret'.val.content.text
                   = "Onboarding already completed. Your profile: {profile}"
            /\ ret'.val.structuredContent.completed
            /\ ret'.val.structuredContent.profile
                   = profiles[<<sessions[id].answers[1], sessions[id].answers[2],
                                sessions[id].answers[3]>>]
            /\ ret'.val.structuredContent.profile.profile
                   = C10_Table(sessions[id].answers[1], sessions[id].answers[2],
                               sessions[id].answers[3])
            /\ ret'.val.content.profile
                   = ret'.val.structuredContent.profile.profile
        /\ (id \in DOMAIN sessions /\ ~sessions[id].completed
                /\ sessions'[id].completed) =>
            /\ ~ret'.val.isError
            /\ ret'.val.structuredContent.completed
            /\ ret'.val.structuredContent.profile
                   = profiles[<<sessions'[id].answers[1],
                                sessions'[id].answers[2],
                                sessions'[id].answers[3]>>]]_vars

\* a completed session was asked again, with the answer opposite to the
\* third one it had recorded
C21_Witness ==
    /\ lastOp.op = "answer_onboarding"
    /\ pre.tag = "Session"
    /\ pre.val.completed
    /\ lastOp.answer # pre.val.answers[3]
    /\ ret.tag = "Result"
    /\ ret.val.content.text
           = "Onboarding already completed. Your profile: {profile}"

\* C22: record_answer(id, a) changes only the session keyed by id: every
\* other session in the store has the same answers, current_question and
\* completed before and after the call, and the set of session ids in the
\* store is the same.
C22_OtherSessionsUntouched ==
    [][lastOp'.op = "record_answer" =>
        /\ DOMAIN sessions' = DOMAIN sessions
        /\ \A other \in DOMAIN sessions \ {lastOp'.session_id} :
               /\ sessions'[other].answers = sessions[other].answers
               /\ sessions'[other].current_question
                      = sessions[other].current_question
               /\ sessions'[other].completed = sessions[other].completed
               /\ sessions'[other].session_id = other]_vars

\* an answer was recorded in one session while another session, with a
\* different number of answers, was in the store
C22_Witness ==
    /\ lastOp.op = "record_answer"
    /\ pre.tag = "Session"
    /\ ~pre.val.completed
    /\ lastOp.session_id \in DOMAIN sessions
    /\ Len(sessions[lastOp.session_id].answers) = Len(pre.val.answers) + 1
    /\ \E other \in DOMAIN sessions \ {lastOp.session_id} :
           /\ Len(sessions[other].answers) = 1
           /\ Len(sessions[lastOp.session_id].answers) = 3

C23_CompleteText ==
    "Onboarding complete! Your goal-setting profile: **{profile}**\n\n{description}\n\nBased on your answers:\n{answer_text}\n\n**Recommendation:** {recommendation}"

\* C23: for each session, the one answer_onboarding call that returns the
\* completion response carrying the recorded answers ("Onboarding
\* complete!") is the call whose answer was recorded as the third one: a
\* call returns it exactly when it takes the session from two answers to
\* completed, the answers it carries end with the call's own answer, and a
\* completed session stays stored and completed, so no later call takes that
\* step again; every call whose answer was discarded returns the "already
\* completed" response.
C23_OneCompletionResponse ==
    [][/\ \A id \in DOMAIN sessions :
              sessions[id].completed =>
                  id \in DOMAIN sessions' /\ sessions'[id].completed
       /\ lastOp'.op = "answer_onboarding" =>
            LET id == lastOp'.session_id
                third == /\ id \in DOMAIN sessions
                         /\ ~sessions[id].completed
                         /\ Len(sessions[id].answers) = 2
                discarded == id \in DOMAIN sessions /\ sessions[id].completed
            IN  /\ ret'.tag = "Result"
                /\ (ret'.val.content.text = C23_CompleteText) <=> third
                /\ third =>
                    /\ sessions'[id].completed
                    /\ sessions'[id].answers
                           = Append(sessions[id].answers, lastOp'.answer)
                    /\ ret'.val.structuredContent.answers
                           = sessions'[id].answers
                    /\ ret'.val.structuredContent.answers[3] = lastOp'.answer
                /\ discarded =>
                    /\ ret'.val.content.text
                           = "Onboarding already completed. Your profile: {profile}"
                    /\ sessions'[id] = sessions[id]]_vars

\* the third answer of a session was recorded while another session was
\* already completed with a different third answer
C23_Witness ==
    /\ lastOp.op = "answer_onboarding"
    /\ pre.tag = "Session"
    /\ Len(pre.val.answers) = 2
    /\ ret.tag = "Result"
    /\ ret.val.content.text = C23_CompleteText
    /\ ret.val.structuredContent.answers[3] = lastOp.answer
    /\ \E other \in DOMAIN sessions \ {lastOp.session_id} :
           /\ sessions[other].completed
           /\ sessions[other].answers[3] # lastOp.answer

\* C24: the "Failed to record answer" error result of answer_onboarding is
\* unreachable: no tool invokes clear_session, and within one
\* answer_onboarding call record_answer never returns None after
\* get_session returned a session for the same id.
C24_NoFailedToRecord ==
    /\ ret.tag = "Result" =>
        /\ ret.val.content.text # "Failed to record answer."
        /\ ret.val.isError =>
               ret.val.content.text
                   = "Session not found. Please start onboarding again."
    /\ \A id \in DOMAIN sessions, answer \in BOOLEAN :
           record_answer(sessions, id, answer).ret.tag = "Session"
    /\ issued = DOMAIN sessions

\* answer_onboarding found the session, went on to record_answer and the
\* answer was recorded
C24_Witness ==
    /\ lastOp.op = "answer_onboarding"
    /\ pre.tag = "Session"
    /\ ~pre.val.completed
    /\ lastOp.session_id \in DOMAIN sessions
    /\ sessions[lastOp.session_id].answers
           = Append(pre.val.answers, lastOp.answer)
    /\ ret.tag = "Result"
    /\ ~ret.val.isError

\* C25: a set_goal tool call that is rejected (blank title after trimming,
\* empty targetDate, an unparsable date, or target date not after start
\* date) returns an error result and leaves the current goal exactly as it
\* was before the call: the previous goal if one was set, else none.
C25_RejectedKeepsGoal ==
    /\ (lastOp.op = "set_goal" /\ ret.val.isError) =>
           ret.val.structuredContent.goal = goal
    /\ \A title \in Titles, targetDate \in DateStrings,
          startDate \in DateStrings \cup {Omitted},
          today \in Days, now \in Clock :
            LET blank == \A i \in 1..Len(title) : title[i] = " "
                empty == targetDate = EmptyString
                unparsable == \/ targetDate.form = "invalid"
                              \/ startDate.form = "invalid"
                start == IF startDate.form \in {"omitted", "empty"}
                         THEN today ELSE startDate.day
                notAfter == ~empty /\ ~unparsable /\ targetDate.day <= start
            IN  \A r \in {set_goal(goal, title, targetDate, startDate,
                                    today, now)} :
                /\ r.result.val.isError
                       <=> (blank \/ empty \/ unparsable \/ notAfter)
                /\ r.result.val.isError =>
                    /\ r.goal = goal
                    /\ r.result.val.structuredContent.goal = goal
                    /\ r.result.val.content.text =
                           IF blank THEN "Missing goal title."
                           ELSE IF empty THEN "Missing target date."
                           ELSE IF unparsable THEN "Invalid date format: {e}"
                           ELSE "Target date must be after start date."

\* a call with an unparsable date was turned down while a goal was held,
\* and the result reports that goal
C25_Witness ==
    /\ lastOp.op = "set_goal"
    /\ ret.tag = "Result"
    /\ ret.val.isError
    /\ ret.val.content.text = "Invalid date format: {e}"
    /\ goal.tag = "Dict"
    /\ ret.val.structuredContent.goal = goal

\* the line for question i (1 daily, 2 deadlines, 3 multi) and answer b
C26_Line(i, b) ==
    CASE i = 1 /\ b  -> "- You prefer daily goals over long-term planning"
      [] i = 1 /\ ~b -> "- You prefer long-term goals over daily tasks"
      [] i = 2 /\ b  -> "- You work better with strict deadlines"
      [] i = 2 /\ ~b -> "- You work better without strict deadlines"
      [] i = 3 /\ b  -> "- You like tracking multiple goals"
      [] i = 3 /\ ~b -> "- You prefer focusing on one goal at a time"

\* answer lists of every length from 0 to one more than the question count
C26_Answers == UNION {[1..n -> BOOLEAN] : n \in 0..(N + 1)}

C26_Text(answers) ==
    get_answer_summary_text([OnboardingState(1) EXCEPT !.answers = answers]).val

\* C26: get_answer_summary_text returns the empty string for every session
\* whose answers length is not 3, and for a session with 3 answers returns
\* exactly three lines in question order (daily, deadlines, multi), each
\* line determined only by the boolean at its own position, so the 8 answer
\* triples give 8 pairwise different texts.
C26_AnswerSummaryText ==
    /\ (lastOp.op = "get_answer_summary_text"
            /\ lastOp.session_id \in DOMAIN sessions) =>
        LET answers == sessions[lastOp.session_id].answers IN
        /\ ret.tag = "Str"
        /\ Len(answers) # 3 => ret.val = <<>>
        /\ Len(answers) = 3 =>
               ret.val = <<C26_Line(1, answers[1]), C26_Line(2, answers[2]),
                           C26_Line(3, answers[3])>>
    /\ \A answers \in C26_Answers :
           /\ Len(answers) # 3 => C26_Text(answers) = <<>>
           /\ Len(answers) = 3 =>
                  /\ Len(C26_Text(answers)) = 3
                  /\ \A i \in 1..3 :
                         C26_Text(answers)[i] = C26_Line(i, answers[i])
    /\ \A a, b \in [1..3 -> BOOLEAN] : a # b => C26_Text(a) # C26_Text(b)
    /\ Cardinality({C26_Text(a) : a \in [1..3 -> BOOLEAN]}) = 8

\* the text of a completed session with answers yes, no, yes was asked for
C26_Witness ==
    /\ lastOp.op = "get_answer_summary_text"
    /\ lastOp.session_id \in DOMAIN sessions
    /\ sessions[lastOp.session_id].answers = <<TRUE, FALSE, TRUE>>
    /\ ret.tag = "Str"
    /\ Len(ret.val) = 3

=============================================================================
